---------------------------- MODULE Spec2Model ----------------------------
(***************************************************************************)
(* Model of csv_to_html.py: the command-line entry point main(), the       *)
(* Reader half of csv_to_html() (existence check, default title, delimiter *)
(* sniffing, row parsing), the Renderer generate_html() and the write /    *)
(* print step.  Text is a sequence of one-character strings; a document is *)
(* a sequence whose literal template chunks are kept as whole strings and  *)
(* whose interpolated text is kept character by character.                 *)
(***************************************************************************)
EXTENDS Integers, Sequences, FiniteSets, TLC

(***************************************************************************)
(* Bounds of the model.                                                    *)
(***************************************************************************)
MaxContent == 4   \* characters in the input file
MaxName == 3      \* characters in a generated input file name
MaxRows == 2      \* rows of a generated table
MaxCols == 2      \* fields of a generated row
MaxCells == 2     \* fields of a generated table, all rows together

(***************************************************************************)
(* Generic text helpers.                                                   *)
(***************************************************************************)
\* An optional value: None is the empty sequence, Some(x) holds x
None == <<>>

Some(x) == <<x>>

Min(a, b) == IF a < b THEN a ELSE b

RECURSIVE Concat(_)
Concat(ss) == IF ss = <<>> THEN <<>> ELSE Head(ss) \o Concat(Tail(ss))

RECURSIVE SeqsUpTo(_, _)
SeqsUpTo(S, n) ==
  IF n = 0 THEN {<<>>}
  ELSE LET shorter == SeqsUpTo(S, n - 1)
       IN  shorter \cup {Append(s, c) : s \in shorter, c \in S}

Count(line, c) == Cardinality({i \in DOMAIN line : line[i] = c})

\* str.split(c): the pieces of s between occurrences of c, at least one piece
RECURSIVE split(_, _)
split(s, c) ==
  IF \A i \in DOMAIN s : s[i] # c THEN <<s>>
  ELSE LET k == CHOOSE i \in DOMAIN s :
                  s[i] = c /\ \A j \in 1..(i - 1) : s[j] # c
       IN  <<SubSeq(s, 1, k - 1)>> \o split(SubSeq(s, k + 1, Len(s)), c)

\* str.replace(c, r) for a one-character c
replace(s, c, r) ==
  Concat([i \in DOMAIN s |-> IF s[i] = c THEN r ELSE <<s[i]>>])

Whitespace == {" ", "\t", "\n", "\r", "\f"}

RECURSIVE lstrip(_)
lstrip(s) ==
  IF s # <<>> /\ Head(s) \in Whitespace THEN lstrip(Tail(s)) ELSE s

RECURSIVE rstrip(_)
rstrip(s) ==
  IF s # <<>> /\ s[Len(s)] \in Whitespace
  THEN rstrip(SubSeq(s, 1, Len(s) - 1)) ELSE s

\* str.strip()
strip(s) == rstrip(lstrip(s))

(***************************************************************************)
(* html.escape(s) with its default quote=True: the ampersand is replaced   *)
(* first, then the angle brackets, then both quote characters.             *)
(***************************************************************************)
escape_NoQuotes(s) ==
  replace(replace(replace(s, "&", <<"&", "a", "m", "p", ";">>),
                  "<", <<"&", "l", "t", ";">>),
          ">", <<"&", "g", "t", ";">>)

escape(s) ==
  replace(replace(replace(replace(replace(s,
      "&", <<"&", "a", "m", "p", ";">>),
      "<", <<"&", "l", "t", ";">>),
      ">", <<"&", "g", "t", ";">>),
      "\"", <<"&", "q", "u", "o", "t", ";">>),
      "'", <<"&", "#", "x", "2", "7", ";">>)

(***************************************************************************)
(* Default title: splitext(basename(path))[0].replace('_', ' ').title()    *)
(***************************************************************************)
LowerLetters ==
  {"a", "b", "c", "e", "h", "l", "m", "n", "o", "s", "t", "v", "y"}

UpperOf ==
  [c \in LowerLetters |->
     CASE c = "a" -> "A" [] c = "b" -> "B" [] c = "c" -> "C" [] c = "e" -> "E"
       [] c = "h" -> "H" [] c = "l" -> "L" [] c = "m" -> "M" [] c = "n" -> "N"
       [] c = "o" -> "O" [] c = "s" -> "S" [] c = "t" -> "T" [] c = "v" -> "V"
       [] c = "y" -> "Y"]

UpperLetters == {UpperOf[c] : c \in LowerLetters}

upper(c) == IF c \in LowerLetters THEN UpperOf[c] ELSE c

lower(c) ==
  IF c \in UpperLetters THEN CHOOSE l \in LowerLetters : UpperOf[l] = c ELSE c

IsCased(c) == c \in LowerLetters \cup UpperLetters

\* os.path.basename: what follows the last slash
basename(p) ==
  LET slashes == {i \in DOMAIN p : p[i] = "/"}
  IN  IF slashes = {} THEN p
      ELSE SubSeq(p, (CHOOSE i \in slashes : \A j \in slashes : j <= i) + 1,
                  Len(p))

\* os.path.splitext(b)[0]: cut at the last dot, unless only dots precede it
splitext_root(b) ==
  LET dots == {i \in DOMAIN b : b[i] = "."}
      last == CHOOSE i \in dots : \A j \in dots : j <= i
  IN  IF dots = {} THEN b
      ELSE IF \A j \in 1..(last - 1) : b[j] = "." THEN b
      ELSE SubSeq(b, 1, last - 1)

\* str.title(): a cased character is upper-cased when the character before
\* it is not cased and lower-cased when it is; other characters are kept.
str_title_FirstOnly(s) ==
  [i \in DOMAIN s |->
     IF ~IsCased(s[i]) THEN s[i]
     ELSE IF i = 1 THEN upper(s[i]) ELSE lower(s[i])]

str_title(s) ==
  [i \in DOMAIN s |->
     IF ~IsCased(s[i]) THEN s[i]
     ELSE IF i > 1 /\ IsCased(s[i - 1]) THEN lower(s[i]) ELSE upper(s[i])]

default_title(path) ==
  str_title(replace(splitext_root(basename(path)), "_", <<" ">>))

(***************************************************************************)
(* csv.Sniffer().sniff(sample).delimiter as called at lines 49-50, for a   *)
(* sample without quote characters (so the quote-based guess finds         *)
(* nothing) and with at most ten non-empty lines (one chunk).              *)
(***************************************************************************)
SampleSize == 1024

Preferred == <<",", "\t", ";", " ", ":">>

Ord ==
  [c \in {"\t", " ", ",", ":", ";", "a", "b"} |->
     CASE c = "\t" -> 9 [] c = " " -> 32 [] c = "," -> 44 [] c = ":" -> 58
       [] c = ";" -> 59 [] c = "a" -> 97 [] c = "b" -> 98]

Ascii == DOMAIN Ord

\* the non-empty lines of the sample
sniff_data(sample) == SelectSeq(split(sample, "\n"), LAMBDA l : l # <<>>)

\* modes[c]: the most common per-line frequency f of c and its adjusted
\* count (lines with frequency f minus all other lines), when both are > 0
sniff_modes(data) ==
  LET total == Len(data)
      lines(c, f) == Cardinality({i \in DOMAIN data : Count(data[i], c) = f})
      mode(c, f) == [char |-> c, freq |-> f, adj |-> 2 * lines(c, f) - total]
      all == UNION {{mode(c, Count(data[i], c)) : i \in DOMAIN data} :
                    c \in Ascii}
  IN  {m \in all : m.freq > 0 /\ m.adj > 0}

\* the candidates that meet the highest consistency level reached by any,
\* levels going from 100% down to 90%
sniff_delims(data) ==
  LET total == Len(data)
      modes == sniff_modes(data)
      meets(p) == {m \in modes : m.adj * 100 >= p * total}
      levels == {p \in 90..100 : meets(p) # {}}
  IN  IF levels = {} THEN {}
      ELSE meets(CHOOSE p \in levels : \A q \in levels : q <= p)

guess_delimiter(sample) ==
  LET data == sniff_data(sample)
      delims == sniff_delims(data)
      chars == {m.char : m \in delims}
      pref == {i \in DOMAIN Preferred : Preferred[i] \in chars}
      less(m, n) ==
        \/ m.freq < n.freq
        \/ m.freq = n.freq /\ m.adj < n.adj
        \/ m.freq = n.freq /\ m.adj = n.adj /\ Ord[m.char] <= Ord[n.char]
  IN  IF data = <<>> \/ delims = {} THEN ""
      ELSE IF Cardinality(delims) = 1 THEN (CHOOSE m \in delims : TRUE).char
      ELSE IF pref # {}
           THEN Preferred[CHOOSE i \in pref : \A j \in pref : i <= j]
      ELSE (CHOOSE m \in delims : \A n \in delims : less(n, m)).char

\* "" stands for csv.Error("Could not determine delimiter")
sniff(sample) == guess_delimiter(sample)

(***************************************************************************)
(* list(csv.reader(csvfile, delimiter=delimiter)) for text without quote   *)
(* characters: one row per line, an empty line gives an empty row, and a   *)
(* final line-break does not start another row.                            *)
(***************************************************************************)
csv_reader(content, delimiter) ==
  LET pieces == split(content, "\n")
      lines == IF pieces[Len(pieces)] = <<>>
               THEN SubSeq(pieces, 1, Len(pieces) - 1) ELSE pieces
  IN  [i \in DOMAIN lines |->
         IF lines[i] = <<>> THEN <<>> ELSE split(lines[i], delimiter)]

(***************************************************************************)
(* The Reader: lines 44-58 of csv_to_html.  The result is the table or the *)
(* ValueError raised.                                                      *)
(***************************************************************************)
Ok(table) == [type |-> "ok", rows |-> table, msg |-> ""]

Err(text) == [type |-> "ValueError", rows |-> <<>>, msg |-> text]

read_csv_Lenient(state, content) ==
  IF state # "ok" THEN Err("Error reading CSV file: cannot read")
  ELSE LET sample == SubSeq(content, 1, Min(SampleSize, Len(content)))
           delimiter == IF sniff(sample) = "" THEN "," ELSE sniff(sample)
       IN  Ok(csv_reader(content, delimiter))

read_csv(state, content) ==
  IF state = "denied"
  THEN Err("Error reading CSV file: Permission denied")
  ELSE IF state = "undecodable"
  THEN Err("Error reading CSV file: 'utf-8' codec can't decode byte")
  ELSE LET sample == SubSeq(content, 1, Min(SampleSize, Len(content)))
           delimiter == sniff(sample)
       IN  IF delimiter = ""
           THEN Err("Error reading CSV file: Could not determine delimiter")
           ELSE LET table == csv_reader(content, delimiter)
                IN  IF table = <<>> THEN Err("CSV file is empty")
                    ELSE Ok(table)

(***************************************************************************)
(* The Renderer: generate_html(rows, title).                               *)
(***************************************************************************)
DocOpen == "<!DOCTYPE html><html lang=\"en\"><head><meta ...><title>"

TitleClose == "</title><style>...</style></head><body><div class=\"container\"><h1>"

TableOpen == "</h1><table>"

TheadOpen == "<thead><tr>"

ThOpen == "<th>"

ThClose == "</th>"

TheadClose == "</tr></thead>"

TbodyOpen == "<tbody>"

TrOpen == "<tr>"

TdOpen == "<td>"

TdClose == "</td>"

TdEmpty == "<td><span class=\"empty-cell\">(em dash)</span></td>"

TrClose == "</tr>"

TableClose == "</tbody></table>"

InfoOpen == "<div class=\"table-info\">Table contains "

InfoMid == " rows and "

InfoClose == " columns</div></div></body></html>"

render_header(header) == <<ThOpen>> \o escape(strip(header)) \o <<ThClose>>

render_cell_NoStrip(cell) ==
  IF cell = <<>> THEN <<TdEmpty>>
  ELSE <<TdOpen>> \o escape(strip(cell)) \o <<TdClose>>

render_cell(cell) ==
  LET cell_content == strip(cell)
  IN  IF cell_content = <<>> THEN <<TdEmpty>>
      ELSE <<TdOpen>> \o escape(cell_content) \o <<TdClose>>

render_row(row) ==
  <<TrOpen>> \o Concat([j \in DOMAIN row |-> render_cell(row[j])])
             \o <<TrClose>>

total_rows(table) == IF Len(table) > 1 THEN Len(table) - 1 ELSE 0

total_cols(table) == IF table # <<>> THEN Len(table[1]) ELSE 0

generate_html(table, page_title) ==
  <<DocOpen>> \o escape(page_title) \o <<TitleClose>> \o escape(page_title)
    \o <<TableOpen>>
    \o (IF table # <<>>
        THEN <<TheadOpen>>
               \o Concat([j \in DOMAIN table[1] |-> render_header(table[1][j])])
               \o <<TheadClose>>
        ELSE <<>>)
    \o <<TbodyOpen>>
    \o (IF table # <<>>
        THEN Concat([i \in DOMAIN Tail(table) |-> render_row(Tail(table)[i])])
        ELSE <<>>)
    \o <<TableClose>>
    \o <<InfoOpen, ToString(total_rows(table)), InfoMid,
         ToString(total_cols(table)), InfoClose>>

(***************************************************************************)
(* State.  The command line and the file system are chosen in Init; the    *)
(* rest is the position of the run and what it has produced so far.        *)
(***************************************************************************)
VARIABLES
  csv_file,      \* args.csv_file, a path
  output_file,   \* args.output_file: None or Some(path)
  stdout_flag,   \* args.stdout
  title_arg,     \* args.title: None or Some(text)
  fs_exists,     \* os.path.exists(csv_file)
  fs_state,      \* "ok", "denied" (open fails) or "undecodable" (not UTF-8)
  fs_content,    \* the text of the input file
  out_state,     \* opening the output path: "ok", "denied" or "missing_dir"
  out_file,      \* what the run wrote to the output path; <<>> if untouched
  pc,            \* position of the run
  title,         \* csv_to_html's title once line 41 has passed
  rows,          \* the parsed table
  html_content,  \* the rendered document; <<>> before generate_html
  raised,        \* the exception in flight or caught
  stdout,        \* what was printed to standard output
  stderr,        \* what was printed to standard error
  exit_code      \* process exit status; -1 while running

vars ==
  <<csv_file, output_file, stdout_flag, title_arg, fs_exists, fs_state,
    fs_content, out_state, out_file, pc, title, rows, html_content, raised,
    stdout, stderr, exit_code>>

args == <<csv_file, output_file, stdout_flag, title_arg>>

files == <<fs_exists, fs_state, fs_content, out_state>>

NoError == [type |-> "None", msg |-> ""]

Error(t, m) == [type |-> t, msg |-> m]

(***************************************************************************)
(* Inputs.                                                                 *)
(***************************************************************************)
MonthlySales ==
  <<"m", "o", "n", "t", "h", "l", "y", "_", "s", "a", "l", "e", "s",
    ".", "c", "s", "v">>

ContentChars == {"a", "b", ",", " ", "\n"}

Contents == SeqsUpTo(ContentChars, MaxContent)

NameChars == {"a", "B", "_", "1", ".", "/"}

Names == SeqsUpTo(NameChars, MaxName) \cup {MonthlySales}

CoreChars == {"a", "<", ">", "&", "\"", "'"}

Pads == {<<>>, <<" ">>}

\* a cell: nothing or one character, with or without a blank before and after
Cells ==
  {l \o c \o r : l \in Pads, r \in Pads,
                 c \in {<<>>} \cup {<<x>> : x \in CoreChars}}

RECURSIVE Sum(_)
Sum(ns) == IF ns = <<>> THEN 0 ELSE Head(ns) + Sum(Tail(ns))

Shapes == {sh \in SeqsUpTo(0..MaxCols, MaxRows) : Sum(sh) <= MaxCells}

\* the table with row lengths sh whose fields, row after row, are flat
Unflatten(sh, flat) ==
  [i \in DOMAIN sh |->
     [j \in 1..sh[i] |-> flat[Sum(SubSeq(sh, 1, i - 1)) + j]]]

Idle ==
  /\ out_file = <<>>
  /\ title = <<>>
  /\ rows = <<>>
  /\ html_content = <<>>
  /\ raised = NoError
  /\ stdout = <<>>
  /\ stderr = <<>>
  /\ exit_code = -1

\* main() is entered with a parsed command line
Init ==
  /\ pc = "csv_to_html"
  /\ csv_file = MonthlySales
  /\ title_arg \in {None, Some(<<"T">>)}
  /\ output_file \in {None, Some(""), Some("out.html")}
  /\ stdout_flag \in BOOLEAN
  /\ out_state \in {"ok", "denied", "missing_dir"}
  /\ out_state # "ok" => output_file = Some("out.html")
  /\ \/ fs_exists = FALSE /\ fs_state = "ok" /\ fs_content = <<>>
     \/ fs_exists = TRUE /\ fs_state \in {"denied", "undecodable"}
          /\ fs_content = <<>>
     \/ fs_exists = TRUE /\ fs_state = "ok" /\ fs_content \in Contents
  /\ Idle

(***************************************************************************)
(* csv_to_html, lines 36-37.                                               *)
(***************************************************************************)
CheckExists ==
  /\ pc = "csv_to_html"
  /\ IF ~fs_exists
     THEN /\ raised' = Error("FileNotFoundError", "CSV file not found")
          /\ pc' = "except"
     ELSE /\ pc' = "title"
          /\ UNCHANGED raised
  /\ UNCHANGED <<args, files, out_file, title, rows, html_content, stdout,
                 stderr, exit_code>>

(***************************************************************************)
(* csv_to_html, lines 40-41; main passes title=args.title.                 *)
(***************************************************************************)
DefaultTitle ==
  /\ pc = "title"
  /\ title' = IF title_arg = None THEN default_title(csv_file)
              ELSE title_arg[1]
  /\ pc' = "read"
  /\ UNCHANGED <<args, files, out_file, rows, html_content, raised, stdout,
                 stderr, exit_code>>

(***************************************************************************)
(* csv_to_html, lines 44-58.                                               *)
(***************************************************************************)
ReadCsv ==
  /\ pc = "read"
  /\ LET result == read_csv(fs_state, fs_content)
     IN  IF result.type = "ok"
         THEN /\ rows' = result.rows
              /\ pc' = "render"
              /\ UNCHANGED raised
         ELSE /\ raised' = Error("ValueError", result.msg)
              /\ pc' = "except"
              /\ UNCHANGED rows
  /\ UNCHANGED <<args, files, out_file, title, html_content, stdout, stderr,
                 exit_code>>

(***************************************************************************)
(* csv_to_html, line 61.                                                   *)
(***************************************************************************)
GenerateHtml ==
  /\ pc = "render"
  /\ html_content' = generate_html(rows, title)
  /\ pc' = "emit"
  /\ UNCHANGED <<args, files, out_file, title, rows, raised, stdout, stderr,
                 exit_code>>

(***************************************************************************)
(* The output_file argument csv_to_html receives: main (lines 259-265)     *)
(* passes args.output_file only when --stdout is absent and a path given.  *)
(***************************************************************************)
output_param ==
  IF stdout_flag \/ output_file = None THEN None ELSE output_file

\* "if output_file:" at line 63
Truthy(param) == param # None /\ param[1] # ""

(***************************************************************************)
(* csv_to_html, lines 63-66: write the document and print a confirmation.  *)
(***************************************************************************)
WriteFile ==
  /\ pc = "emit"
  /\ Truthy(output_param)
  /\ IF out_state = "ok"
     THEN /\ out_file' = html_content
          /\ stdout' = Append(stdout, [what |-> "saved", doc |-> <<>>])
          /\ pc' = "returned"
          /\ UNCHANGED raised
     ELSE /\ raised' =
               IF out_state = "missing_dir"
               THEN Error("FileNotFoundError", "No such file or directory")
               ELSE Error("PermissionError", "Permission denied")
          /\ pc' = "except"
          /\ UNCHANGED <<out_file, stdout>>
  /\ UNCHANGED <<args, files, title, rows, html_content, stderr, exit_code>>

(***************************************************************************)
(* csv_to_html, lines 67-68, returning to main, lines 261-262.             *)
(***************************************************************************)
PrintHtml ==
  /\ pc = "emit"
  /\ stdout_flag \/ output_file = None
  /\ stdout' = Append(stdout, [what |-> "document", doc |-> html_content])
  /\ pc' = "returned"
  /\ UNCHANGED <<args, files, out_file, title, rows, html_content, raised,
                 stderr, exit_code>>

(***************************************************************************)
(* csv_to_html, lines 67-68, returning to main, line 265, which drops the  *)
(* returned document.                                                      *)
(***************************************************************************)
DropHtml ==
  /\ pc = "emit"
  /\ ~(stdout_flag \/ output_file = None)
  /\ ~Truthy(output_param)
  /\ pc' = "returned"
  /\ UNCHANGED <<args, files, out_file, title, rows, html_content, raised,
                 stdout, stderr, exit_code>>

(***************************************************************************)
(* main, lines 267-275: the three handlers, each ending in sys.exit(1).    *)
(***************************************************************************)
handler_prefix(type) ==
  IF type = "FileNotFoundError" THEN "Error: "
  ELSE IF type = "ValueError" THEN "Error: "
  ELSE "Unexpected error: "

handler_exit_OnlyKnown(type) ==
  IF type \in {"FileNotFoundError", "ValueError"} THEN 1 ELSE 0

handler_exit(type) == 1

Except_ToStdout ==
  /\ pc = "except"
  /\ stdout' = Append(stdout, [what |-> "error", doc |-> <<>>])
  /\ exit_code' = handler_exit(raised.type)
  /\ pc' = "done"
  /\ UNCHANGED <<args, files, out_file, title, rows, html_content, raised,
                 stderr>>

Except ==
  /\ pc = "except"
  /\ stderr' = Append(stderr, [prefix |-> handler_prefix(raised.type),
                               msg |-> raised.msg])
  /\ exit_code' = handler_exit(raised.type)
  /\ pc' = "done"
  /\ UNCHANGED <<args, files, out_file, title, rows, html_content, raised,
                 stdout>>

(***************************************************************************)
(* Line 280, reached when main() returns: the bare name EOF is evaluated,  *)
(* NameError is raised at module level, the interpreter prints a traceback *)
(* and exits with status 1.                                                *)
(***************************************************************************)
ModuleEnd ==
  /\ pc = "returned"
  /\ raised' = Error("NameError", "name 'EOF' is not defined")
  /\ stderr' = Append(stderr, [prefix |-> "Traceback: ",
                               msg |-> "name 'EOF' is not defined"])
  /\ exit_code' = 1
  /\ pc' = "done"
  /\ UNCHANGED <<args, files, out_file, title, rows, html_content, stdout>>

Next ==
  \/ CheckExists
  \/ DefaultTitle
  \/ ReadCsv
  \/ GenerateHtml
  \/ WriteFile
  \/ PrintHtml
  \/ DropHtml
  \/ Except
  \/ ModuleEnd

Spec == Init /\ [][Next]_vars

(***************************************************************************)
(* The default title alone: any input name, any title option.              *)
(***************************************************************************)
InitTitle ==
  /\ pc = "csv_to_html"
  /\ csv_file \in Names
  /\ title_arg \in {None, Some(<<>>), Some(<<"T">>)}
  /\ output_file = None
  /\ stdout_flag = FALSE
  /\ out_state = "ok"
  /\ fs_exists \in BOOLEAN
  /\ fs_state = "ok"
  /\ fs_content = <<>>
  /\ Idle

NextTitle ==
  \/ CheckExists
  \/ DefaultTitle

SpecTitle == InitTitle /\ [][NextTitle]_vars

(***************************************************************************)
(* generate_html alone, on any table.                                      *)
(***************************************************************************)
InitRender ==
  /\ pc = "render"
  /\ csv_file = MonthlySales
  /\ title_arg = None
  /\ output_file = None
  /\ stdout_flag = FALSE
  /\ out_state = "ok"
  /\ fs_exists = TRUE
  /\ fs_state = "ok"
  /\ fs_content = <<>>
  /\ out_file = <<>>
  /\ title = <<"T", "&">>
  /\ \E sh \in Shapes : \E flat \in [1..Sum(sh) -> Cells] :
       rows = Unflatten(sh, flat)
  /\ html_content = <<>>
  /\ raised = NoError
  /\ stdout = <<>>
  /\ stderr = <<>>
  /\ exit_code = -1

NextRender == GenerateHtml

SpecRender == InitRender /\ [][NextRender]_vars

(***************************************************************************)
(* Vocabulary of the properties.                                           *)
(***************************************************************************)
\* main() returned without raising
Succeeded ==
  pc = "returned" \/ (pc = "done" /\ raised.type = "NameError")

\* the Reader (lines 36-58) raised; nothing has been rendered
ReaderFailed ==
  /\ pc \in {"except", "done"}
  /\ html_content = <<>>
  /\ raised.type # "None"

\* the Reader has finished, one way or the other
ReaderDone == pc \in {"render", "emit", "returned", "done"} \/ ReaderFailed

SavedLine == [what |-> "saved", doc |-> <<>>]

DocumentLine == [what |-> "document", doc |-> html_content]

Entities ==
  {<<<<"&", "a", "m", "p", ";">>, "&">>,
   <<<<"&", "l", "t", ";">>, "<">>,
   <<<<"&", "g", "t", ";">>, ">">>,
   <<<<"&", "q", "u", "o", "t", ";">>, "\"">>,
   <<<<"&", "#", "x", "2", "7", ";">>, "'">>}

StartsWith(s, prefix) ==
  Len(prefix) <= Len(s) /\ SubSeq(s, 1, Len(prefix)) = prefix

\* what a browser reads back from escaped text
RECURSIVE unescape(_)
unescape(s) ==
  IF s = <<>> THEN <<>>
  ELSE IF \E e \in Entities : StartsWith(s, e[1])
  THEN LET e == CHOOSE e \in Entities : StartsWith(s, e[1])
       IN  <<e[2]>> \o unescape(SubSeq(s, Len(e[1]) + 1, Len(s)))
  ELSE <<Head(s)>> \o unescape(Tail(s))

\* no raw angle bracket or quote, and every ampersand starts an entity
EscapedForm(s) ==
  \A i \in DOMAIN s :
    /\ s[i] \notin {"<", ">", "\"", "'"}
    /\ s[i] = "&" =>
         \E e \in Entities : StartsWith(SubSeq(s, i, Len(s)), e[1])

\* the header and data cells of a document, in document order
RECURSIVE Bodies(_)
Bodies(h) ==
  IF h = <<>> THEN <<>>
  ELSE IF Head(h) = TdEmpty
  THEN <<[tag |-> "td", placeholder |-> TRUE, body |-> <<>>]>>
         \o Bodies(Tail(h))
  ELSE IF Head(h) \in {ThOpen, TdOpen}
  THEN LET close == IF Head(h) = ThOpen THEN ThClose ELSE TdClose
           k == CHOOSE i \in DOMAIN h :
                  h[i] = close /\ \A j \in 1..(i - 1) : h[j] # close
       IN  <<[tag |-> IF Head(h) = ThOpen THEN "th" ELSE "td",
              placeholder |-> FALSE, body |-> SubSeq(h, 2, k - 1)]>>
             \o Bodies(SubSeq(h, k + 1, Len(h)))
  ELSE Bodies(Tail(h))

\* the fields of a table, row after row
Fields(table) == Concat(table)

HeaderWidth(table) == IF table = <<>> THEN 0 ELSE Len(table[1])

\* the two numbers of the summary line
Summary(h) ==
  LET i == CHOOSE i \in DOMAIN h : h[i] = InfoOpen
  IN  <<h[i + 1], h[i + 3]>>

\* comma-separated text: at least one line, no empty line, every line with
\* as many fields as the first, no blanks
WellFormed(content) ==
  LET pieces == split(content, "\n")
      lines == IF pieces[Len(pieces)] = <<>>
               THEN SubSeq(pieces, 1, Len(pieces) - 1) ELSE pieces
  IN  /\ lines # <<>>
      /\ \A i \in DOMAIN lines :
           /\ lines[i] # <<>>
           /\ Count(lines[i], ",") = Count(lines[1], ",")
      /\ \A i \in DOMAIN content : content[i] # " "

DataRows(content) == Len(SelectSeq(split(content, "\n"), LAMBDA l : l # <<>>)) - 1

HeaderCols(content) == Count(split(content, "\n")[1], ",") + 1

(***************************************************************************)
(* C1: on every successful run, with an output path given and --stdout     *)
(* absent the document is written to that path and a confirmation is       *)
(* printed; in every other case the document itself is printed.            *)
(***************************************************************************)
C1_DocumentEmitted ==
  Succeeded =>
    IF output_file # None /\ ~stdout_flag
    THEN out_file = html_content /\ stdout = <<SavedLine>>
    ELSE out_file = <<>> /\ stdout = <<DocumentLine>>

(***************************************************************************)
(* C2: the exit code is 0 on every successful run and 1 on every handled   *)
(* error, whose message is printed to standard error.                      *)
(***************************************************************************)
C2_ExitCodes ==
  pc = "done" =>
    IF Succeeded THEN exit_code = 0
    ELSE exit_code = 1 /\ Len(stderr) = 1 /\ stderr[1].msg = raised.msg

(***************************************************************************)
(* C3: the Reader fails with a not-found error when the input is absent,   *)
(* with a value error carrying a message when the input is present but     *)
(* empty, blank, unparsable or undecodable, and with nothing else.         *)
(***************************************************************************)
C3_ReaderErrors ==
  ReaderDone =>
    LET kind == IF ReaderFailed THEN raised.type ELSE "None"
        blank == \A i \in DOMAIN fs_content : fs_content[i] \in Whitespace
    IN  /\ ~fs_exists => kind = "FileNotFoundError"
        /\ fs_exists /\ (fs_state # "ok" \/ blank \/ read_csv(fs_state, fs_content).type # "ok")
             => kind = "ValueError" /\ raised.msg # ""
        /\ kind \in {"None", "FileNotFoundError", "ValueError"}

(***************************************************************************)
(* C4: a failure is reported as not-found only when the input path does    *)
(* not exist, as a value error only when the input exists but cannot be    *)
(* read or parsed, and any other failure, such as one while writing the    *)
(* output file, is reported as an unexpected error.                        *)
(***************************************************************************)
C4_Taxonomy ==
  pc = "done" /\ ~Succeeded =>
    LET report == stderr[Len(stderr)]
        notFound == report.prefix = "Error: " /\ raised.type = "FileNotFoundError"
        valueErr == report.prefix = "Error: " /\ raised.type = "ValueError"
    IN  /\ notFound => ~fs_exists
        /\ valueErr => fs_exists /\ read_csv(fs_state, fs_content).type # "ok"
        /\ ~ReaderFailed => report.prefix = "Unexpected error: "

(***************************************************************************)
(* C5: for a well-formed CSV with N data rows and M header columns the     *)
(* conversion succeeds and the summary line reports N rows and M columns.  *)
(***************************************************************************)
C5_SummaryCounts ==
  ReaderDone /\ pc # "render" /\ fs_exists /\ fs_state = "ok"
    /\ WellFormed(fs_content)
  => /\ html_content # <<>>
     /\ Summary(html_content) =
          <<ToString(DataRows(fs_content)), ToString(HeaderCols(fs_content))>>

(***************************************************************************)
(* C6: in the rendered document every header and every non-empty data cell *)
(* is the trimmed text in escaped form: no raw <, >, & or quote is left,   *)
(* and reading the escaped text back gives the trimmed text.               *)
(***************************************************************************)
C6_Escaped ==
  pc = "emit" =>
    LET cells == Bodies(html_content)
        shown == SelectSeq(cells, LAMBDA c : ~c.placeholder)
        texts == Fields(rows)
        kept == [k \in DOMAIN texts |-> strip(texts[k])]
        expected == SelectSeq([k \in DOMAIN kept |->
                                 [text |-> kept[k],
                                  header |-> k <= HeaderWidth(rows)]],
                              LAMBDA e : e.header \/ e.text # <<>>)
    IN  /\ Len(shown) = Len(expected)
        /\ \A k \in DOMAIN shown :
             /\ EscapedForm(shown[k].body)
             /\ unescape(shown[k].body) = expected[k].text

C6_Witness ==
  /\ pc = "emit"
  /\ \E i \in DOMAIN rows : \E j \in DOMAIN rows[i] :
       /\ rows[i][j] = <<" ", "\"", " ">>
       /\ i > 1
  /\ \E j \in DOMAIN rows[1] : rows[1][j] = <<" ", "&", " ">>

(***************************************************************************)
(* C7 as claimed: every cell of the table, in any row, that is empty after *)
(* trimming is rendered as the placeholder marker, never as an empty tag.  *)
(***************************************************************************)
C7_AnyRowPlaceholder ==
  pc = "emit" =>
    LET cells == Bodies(html_content)
        fields == Fields(rows)
    IN  /\ Len(cells) = Len(fields)
        /\ \A k \in DOMAIN fields :
             strip(fields[k]) = <<>> => cells[k].placeholder

(***************************************************************************)
(* C7 as amended: every cell of a data row (any row after the first, the   *)
(* header row) that is empty after trimming is rendered as the placeholder *)
(* marker, never as an empty tag, and no other data cell is.               *)
(***************************************************************************)
C7_DataRowPlaceholder ==
  pc = "emit" =>
    LET cells == Bodies(html_content)
        fields == Fields(rows)
    IN  /\ Len(cells) = Len(fields)
        /\ \A k \in DOMAIN fields :
             k > HeaderWidth(rows) =>
               /\ cells[k].tag = "td"
               /\ cells[k].placeholder <=> strip(fields[k]) = <<>>
               /\ ~cells[k].placeholder => cells[k].body # <<>>

C7_Witness ==
  /\ pc = "emit"
  /\ Len(rows) = 2
  /\ rows[1] = <<<<"a">>>>
  /\ rows[2] = <<<<" ", " ">>>>

(***************************************************************************)
(* C8: the title is the custom title whenever one is supplied; otherwise   *)
(* it is the input's base name without its extension, underscores turned   *)
(* into spaces and every word starting with a capital, so that             *)
(* monthly_sales.csv gives Monthly Sales.                                  *)
(***************************************************************************)
C8_Title ==
  pc = "read" =>
    IF title_arg # None THEN title = title_arg[1]
    ELSE LET stem == splitext_root(basename(csv_file))
         IN  /\ Len(title) = Len(stem)
             /\ \A i \in DOMAIN stem :
                  /\ stem[i] = "_" => title[i] = " "
                  /\ stem[i] # "_" => lower(title[i]) = lower(stem[i])
                  /\ IsCased(title[i]) /\ (i = 1 \/ title[i - 1] = " ")
                       => title[i] \in UpperLetters
             /\ csv_file = MonthlySales =>
                  title = <<"M", "o", "n", "t", "h", "l", "y", " ",
                            "S", "a", "l", "e", "s">>

C8_Witness ==
  /\ pc = "read"
  /\ title_arg = None
  /\ csv_file = MonthlySales
  /\ title # <<>>

(***************************************************************************)
(* C9: when a run ends in a Reader error nothing has been printed to       *)
(* standard output and the output file is untouched; output is produced    *)
(* only once parsing and rendering have both succeeded.                    *)
(***************************************************************************)
C9_NoOutputOnReaderError ==
  /\ ReaderFailed => stdout = <<>> /\ out_file = <<>>
  /\ stdout # <<>> \/ out_file # <<>> => rows # <<>> /\ html_content # <<>>

C9_Witness ==
  /\ pc = "done"
  /\ ReaderFailed
  /\ raised.type = "ValueError"
  /\ output_file = Some("out.html")
  /\ ~stdout_flag
  /\ stderr # <<>>

(***************************************************************************)
(* C10: generate_html is only ever given a table with at least one row; an *)
(* input that parses to no rows ends in a value error before rendering.    *)
(***************************************************************************)
C10_TableNotEmpty ==
  /\ pc = "render" \/ html_content # <<>> => Len(rows) >= 1
  /\ ReaderDone /\ fs_exists /\ fs_state = "ok" /\ fs_content = <<>>
       => ReaderFailed /\ raised.type = "ValueError"

C10_Witness ==
  /\ pc = "except"
  /\ fs_exists
  /\ fs_state = "ok"
  /\ fs_content = <<>>
  /\ raised.type = "ValueError"

=============================================================================
